---------------------------- MODULE Spec2Model ----------------------------
(***************************************************************************)
(* A model of the two scripts of the repository:                           *)
(*   scripts/update_data.py        parse the feed, enrich every record     *)
(*                                 through fetch_openfda, write the data   *)
(*   scripts/extract_summaries.py  discover, rank, download and extract    *)
(*                                 the summary documents of every record   *)
(* Text values are TLA+ strings; Python's None is the empty tuple and an   *)
(* integer n that may be None is the one-element tuple <<n>>.              *)
(***************************************************************************)
EXTENDS Integers, Sequences, FiniteSets, TLC

VARIABLES
    pc,          \* update_data.main: "idle", "loop", "attempt", "done", "aborted"
    run,         \* number of runs of update_data.main started so far
    rows,        \* main: the records built by parse_xml_rows
    i,           \* main: 1-based position of the enrichment loop in rows
    cache,       \* main: the dict handed to fetch_openfda
    frame,       \* fetch_openfda: locals of the call in progress
    lastCall,    \* history: what the last finished call of fetch_openfda did
    looked,      \* history: identifiers this run sent to the network
    missed,      \* history: identifiers the service answered with no match, this run
    prevCached,  \* history: keys the previous run's cache held when it ended
    html_links,  \* find_summary_pdfs: the anchors parse_links found in the page
    base_url,    \* find_summary_pdfs: the URL of the page
    candidates,  \* find_summary_pdfs: its result, None before the call
    xpc,         \* extract_summaries.main: "idle", "records", "docs", "done", "aborted"
    args,        \* main: the options force, all and limit of the run
    records,     \* main: the records load_records returned
    link_cache,  \* main: the dict `cache`, loaded from the cache file
    cacheFile,   \* the link cache file (a missing file is the empty dict)
    pdfFiles,    \* the files of the PDF directory: path -> content
    textFiles,   \* the files of the text directory: path -> content
    rpos,        \* main: 1-based position of the loop over records
    to_download, \* main: the URLs selected for the record at r
    dpos,        \* main: 1-based position of the loop over to_download
    processed,   \* main: the counter the limit is compared with
    loaded,      \* history: the link cache as this run loaded it
    failedIds,   \* history: identifiers whose cached list a failed page fetch wrote
    loadedFailed, \* history: failedIds when this run started
    xlog,        \* history: what this run did, by record and document
    called,      \* a function called on its own: its name and its arguments
    returned     \* what the call returned, None before it returns

enrichVars == <<pc, run, rows, i, cache, frame, lastCall, looked, missed, prevCached>>

rankVars == <<html_links, base_url, candidates>>

extractVars == <<xpc, args, records, link_cache, cacheFile, pdfFiles, textFiles,
                 rpos, to_download, dpos, processed, loaded, failedIds, loadedFailed,
                 xlog>>

callVars == <<called, returned>>

vars == <<enrichVars, rankVars, extractVars, callVars>>

-----------------------------------------------------------------------------
(* Bounds of the model *)

MaxRows == 2
MaxRuns == 2
MaxCalls == 3
MaxLinks == 3
MaxRecords == 2
MaxPieces == 3

-----------------------------------------------------------------------------
(* Python values *)

None == <<>>

Some(n) == <<n>>

\* bool(d) of a dict: a dict is true exactly when it has a key
Truthy(d) == DOMAIN d # {}

\* d.get(key, default)
GetOr(d, key, default) == IF key \in DOMAIN d THEN d[key] ELSE default

\* d[key] = value
Put(d, key, value) ==
    [k \in DOMAIN d \cup {key} |-> IF k = key THEN value ELSE d[k]]

\* the lists of at most n elements of S
SeqsUpTo(S, n) == UNION { [1..k -> S] : k \in 0..n }

Digits == "0123456789"
LowerLetters == "abcdefghijklmnopqrstuvwxyz"
UpperLetters == "ABCDEFGHIJKLMNOPQRSTUVWXYZ"

Char(s, k) == SubSeq(s, k, k)

IndexIn(alphabet, c) ==
    IF \E k \in 1..Len(alphabet) : Char(alphabet, k) = c
    THEN CHOOSE k \in 1..Len(alphabet) : Char(alphabet, k) = c
    ELSE 0

IsDigit(c) == IndexIn(Digits, c) > 0

UpperChar(c) ==
    IF IndexIn(LowerLetters, c) > 0
    THEN Char(UpperLetters, IndexIn(LowerLetters, c))
    ELSE c

RECURSIVE Upper(_)
Upper(s) == IF s = "" THEN "" ELSE UpperChar(Char(s, 1)) \o Upper(SubSeq(s, 2, Len(s)))

StartsWith(s, p) == Len(s) >= Len(p) /\ SubSeq(s, 1, Len(p)) = p

RECURSIVE Strip(_)
Strip(s) ==
    IF s = "" THEN ""
    ELSE IF Char(s, 1) = " " THEN Strip(SubSeq(s, 2, Len(s)))
    ELSE IF Char(s, Len(s)) = " " THEN Strip(SubSeq(s, 1, Len(s) - 1))
    ELSE s

\* re.fullmatch of a pattern made of \d and literal characters: "d" in the
\* shape stands for \d, any other character for itself
MatchesShape(raw, shape) ==
    /\ Len(raw) = Len(shape)
    /\ \A k \in 1..Len(shape) :
          IF Char(shape, k) = "d" THEN IsDigit(Char(raw, k))
          ELSE Char(raw, k) = Char(shape, k)

normalize_date(value) ==
    IF value = "" THEN ""
    ELSE LET raw == Strip(value) IN
         IF MatchesShape(raw, "dddd-dd-dd") THEN raw
         ELSE IF MatchesShape(raw, "dddd/dd/dd")
              THEN SubSeq(raw, 1, 4) \o "-" \o SubSeq(raw, 6, 7) \o "-" \o SubSeq(raw, 9, 10)
         ELSE IF MatchesShape(raw, "dd/dd/dddd")
              THEN SubSeq(raw, 7, 10) \o "-" \o SubSeq(raw, 1, 2) \o "-" \o SubSeq(raw, 4, 5)
         ELSE IF MatchesShape(raw, "dddddddd")
              THEN SubSeq(raw, 1, 4) \o "-" \o SubSeq(raw, 5, 6) \o "-" \o SubSeq(raw, 7, 8)
         ELSE ""

-----------------------------------------------------------------------------
(* datetime.date *)

RECURSIVE ToInt(_)
ToInt(s) ==
    IF s = "" THEN 0
    ELSE 10 * ToInt(SubSeq(s, 1, Len(s) - 1)) + (IndexIn(Digits, Char(s, Len(s))) - 1)

IsLeap(y) == (y % 4 = 0 /\ y % 100 # 0) \/ y % 400 = 0

DaysInMonth(y, m) ==
    IF m = 2 THEN (IF IsLeap(y) THEN 29 ELSE 28)
    ELSE IF m \in {4, 6, 9, 11} THEN 30 ELSE 31

RECURSIVE DaysBeforeMonth(_, _)
DaysBeforeMonth(y, m) ==
    IF m = 1 THEN 0 ELSE DaysBeforeMonth(y, m - 1) + DaysInMonth(y, m - 1)

\* date.fromisoformat: None stands for the ValueError it raises
fromisoformat(s) ==
    IF ~MatchesShape(s, "dddd-dd-dd") THEN None
    ELSE LET y == ToInt(SubSeq(s, 1, 4))
             m == ToInt(SubSeq(s, 6, 7))
             d == ToInt(SubSeq(s, 9, 10))
         IN  IF y >= 1 /\ m \in 1..12 /\ d >= 1 /\ d <= DaysInMonth(y, m)
             THEN Some([year |-> y, month |-> m, day |-> d])
             ELSE None

\* date.toordinal
Ordinal(date) ==
    LET p == date.year - 1
    IN  365 * p + (p \div 4) - (p \div 100) + (p \div 400)
        + DaysBeforeMonth(date.year, date.month) + date.day

\* the distance of the two dates, whichever comes first
days_between_unordered(start_iso, end_iso) ==
    IF start_iso = "" \/ end_iso = "" THEN None
    ELSE LET start == fromisoformat(start_iso)
             end == fromisoformat(end_iso)
         IN  IF start = None \/ end = None THEN None
             ELSE IF Ordinal(end[1]) < Ordinal(start[1])
                  THEN Some(Ordinal(start[1]) - Ordinal(end[1]))
             ELSE Some(Ordinal(end[1]) - Ordinal(start[1]))

days_between(start_iso, end_iso) ==
    IF start_iso = "" \/ end_iso = "" THEN None
    ELSE LET start == fromisoformat(start_iso)
             end == fromisoformat(end_iso)
         IN  IF start = None \/ end = None THEN None
             ELSE IF Ordinal(end[1]) < Ordinal(start[1]) THEN None
             ELSE Some(Ordinal(end[1]) - Ordinal(start[1]))

-----------------------------------------------------------------------------
(* extract_summaries.py: score_link and find_summary_pdfs *)

LowerChar(c) ==
    IF IndexIn(UpperLetters, c) > 0
    THEN Char(LowerLetters, IndexIn(UpperLetters, c))
    ELSE c

RECURSIVE Lower(_)
Lower(s) == IF s = "" THEN "" ELSE LowerChar(Char(s, 1)) \o Lower(SubSeq(s, 2, Len(s)))

\* needle in hay
Contains(hay, needle) ==
    \E k \in 1..(Len(hay) - Len(needle) + 1) : SubSeq(hay, k, k + Len(needle) - 1) = needle

\* the position of the first occurrence of needle in hay at or after from, 0 if none
Find(hay, needle, from) ==
    LET hits == { k \in from..(Len(hay) - Len(needle) + 1) :
                    SubSeq(hay, k, k + Len(needle) - 1) = needle }
    IN  IF hits = {} THEN 0 ELSE CHOOSE k \in hits : \A j \in hits : k <= j

\* the position of the last "/" of s, 0 if none
LastSlash(s) ==
    LET hits == { k \in 1..Len(s) : Char(s, k) = "/" }
    IN  IF hits = {} THEN 0 ELSE CHOOSE k \in hits : \A j \in hits : k >= j

SUMMARY_KEYWORDS ==
    << "summary of safety and effectiveness",
       "summary of safety",
       "ssed",
       "summary",
       "510(k) summary",
       "executive summary",
       "decision summary" >>

NEGATIVE_KEYWORDS ==
    << "label", "labeling", "instructions", "ifu", "manual", "brochure", "addendum", "review" >>

RECURSIVE SumOver(_, _)
SumOver(f, n) == IF n = 0 THEN 0 ELSE f[n] + SumOver(f, n - 1)

\* a positive keyword counts for the text and for the URL, each on its own
score_link_both(text, href) ==
    LET text_lower == Lower(text)
        href_lower == Lower(href)
        plus == [k \in 1..Len(SUMMARY_KEYWORDS) |->
                    (IF Contains(text_lower, SUMMARY_KEYWORDS[k]) THEN 3 ELSE 0)
                        + (IF Contains(href_lower, SUMMARY_KEYWORDS[k]) THEN 1 ELSE 0)]
        minus == [k \in 1..Len(NEGATIVE_KEYWORDS) |->
                    IF Contains(text_lower, NEGATIVE_KEYWORDS[k])
                          \/ Contains(href_lower, NEGATIVE_KEYWORDS[k])
                    THEN 2 ELSE 0]
    IN  SumOver(plus, Len(SUMMARY_KEYWORDS)) - SumOver(minus, Len(NEGATIVE_KEYWORDS))

score_link(text, href) ==
    LET text_lower == Lower(text)
        href_lower == Lower(href)
        plus == [k \in 1..Len(SUMMARY_KEYWORDS) |->
                    IF Contains(text_lower, SUMMARY_KEYWORDS[k]) THEN 3
                    ELSE IF Contains(href_lower, SUMMARY_KEYWORDS[k]) THEN 1
                    ELSE 0]
        minus == [k \in 1..Len(NEGATIVE_KEYWORDS) |->
                    IF Contains(text_lower, NEGATIVE_KEYWORDS[k])
                          \/ Contains(href_lower, NEGATIVE_KEYWORDS[k])
                    THEN 2 ELSE 0]
    IN  SumOver(plus, Len(SUMMARY_KEYWORDS)) - SumOver(minus, Len(NEGATIVE_KEYWORDS))

\* PDF_RE.search(href): ".pdf" in any letter case, at the end or before a "?"
PDF_RE(href) ==
    \E k \in 1..(Len(href) - 3) :
        /\ Lower(SubSeq(href, k, k + 3)) = ".pdf"
        /\ (k + 3 = Len(href) \/ Char(href, k + 4) = "?")

\* urllib.parse.urljoin(base, href) for an absolute href, a href that starts
\* with "/" and a href relative to the directory of the page
urljoin(base, href) ==
    LET scheme == Find(base, "://", 1)
        slash == Find(base, "/", scheme + 3)
        origin == IF slash = 0 THEN base ELSE SubSeq(base, 1, slash - 1)
        query == Find(base, "?", 1)
        path == IF query = 0 THEN base ELSE SubSeq(base, 1, query - 1)
        dir == IF slash = 0 THEN base \o "/" ELSE SubSeq(path, 1, LastSlash(path))
    IN  IF Find(href, "://", 1) > 0 THEN href
        ELSE IF StartsWith(href, "/") THEN origin \o href
        ELSE dir \o href

\* lines 107-114: the document links of the page, made absolute
RECURSIVE PdfLinks(_, _)
PdfLinks(links, base) ==
    IF links = <<>> THEN <<>>
    ELSE LET href == links[1].href
             rest == PdfLinks(Tail(links), base)
         IN  IF href = "" \/ ~PDF_RE(href) THEN rest
             ELSE <<[url |-> urljoin(base, href), text |-> links[1].text]>> \o rest

\* lines 119-122
Scored(pdf_links) ==
    [k \in 1..Len(pdf_links) |->
        [url |-> pdf_links[k].url, text |-> pdf_links[k].text,
         score |-> score_link(pdf_links[k].text, pdf_links[k].url)]]

\* [item for item in scored if item["score"] > 0]
Preferred(scored) == SelectSeq(scored, LAMBDA item : item.score > 0)

\* item put into a list sorted by descending score, after the items that score
\* at least as much
InsertDesc(sorted, item) ==
    LET before == { k \in 0..Len(sorted) : \A j \in 1..k : sorted[j].score >= item.score }
        at == CHOOSE k \in before : \A j \in before : k >= j
    IN  SubSeq(sorted, 1, at) \o <<item>> \o SubSeq(sorted, at + 1, Len(sorted))

\* item put into a list sorted by ascending score
InsertAsc(sorted, item) ==
    LET before == { k \in 0..Len(sorted) : \A j \in 1..k : sorted[j].score <= item.score }
        at == CHOOSE k \in before : \A j \in before : k >= j
    IN  SubSeq(sorted, 1, at) \o <<item>> \o SubSeq(sorted, at + 1, Len(sorted))

RECURSIVE SortAscending(_)
SortAscending(items) ==
    IF items = <<>> THEN <<>>
    ELSE InsertAsc(SortAscending(SubSeq(items, 1, Len(items) - 1)), items[Len(items)])

\* candidates.sort(key=lambda item: item["score"], reverse=True): a stable sort
RECURSIVE SortByScore(_)
SortByScore(items) ==
    IF items = <<>> THEN <<>>
    ELSE InsertDesc(SortByScore(SubSeq(items, 1, Len(items) - 1)), items[Len(items)])

find_summary_pdfs(links, base) ==
    LET pdf_links == PdfLinks(links, base)
        scored == Scored(pdf_links)
        preferred == Preferred(scored)
    IN  IF pdf_links = <<>> THEN <<>>
        ELSE SortByScore(IF preferred # <<>> THEN preferred ELSE scored)

\* anchors of reference pages: (href, text) as LinkCollector records them
Anchors ==
    { [href |-> "s.pdf", text |-> "510(k) Summary"],
      [href |-> "/d/summary.pdf", text |-> "Document"],
      [href |-> "ifu.pdf", text |-> "Instructions for Use"],
      [href |-> "x.PDF?v=1", text |-> "Other"],
      [href |-> "https://o/r.pdf", text |-> "Decision summary and review"],
      [href |-> "page.html", text |-> "Summary"],
      [href |-> "", text |-> "Summary" ] }

PageUrls == { "https://h/c/pmn.cfm?ID=K1" }

\* find_summary_pdfs is called on the anchors of a page
Rank ==
    /\ candidates = None
    /\ candidates' = Some(find_summary_pdfs(html_links, base_url))
    /\ UNCHANGED <<html_links, base_url>>
    /\ UNCHANGED <<enrichVars, extractVars, callVars>>

-----------------------------------------------------------------------------
(* extract_summaries.py: main *)

\* the records of the input: an identifier with its reference page (the same
\* identifier may come in more than one record), or a record without a page
InputRecords ==
    { [submission_id |-> "K1", submission_url |-> " https://h/c/pmn.cfm?ID=K1"],
      [submission_id |-> "P2", submission_url |-> " "] }

\* what the fetch of a reference page returns: the anchors of the page
Pages ==
    { <<>>,
      << [href |-> "s.pdf", text |-> "510(k) Summary"] >>,
      << [href |-> "ifu.pdf", text |-> "Instructions for Use"],
         [href |-> "/d/summary.pdf", text |-> "Document"],
         [href |-> "s.pdf", text |-> "510(k) Summary"] >> }

\* --limit: 0 for no limit
Limits == {0, 1}

\* the ranked URLs of every page at every reference URL of the input
RankedUrls ==
    [u \in { Strip(rec.submission_url) : rec \in InputRecords }, p \in Pages |->
        LET ranked == find_summary_pdfs(p, u)
        IN  [k \in 1..Len(ranked) |-> ranked[k].url]]

\* download_url(submission_url): a page, or the exception it raises
PageOutcomes ==
    { [exc |-> "URLError"], [exc |-> "TimeoutError"] }
        \cup { [exc |-> "", links |-> p] : p \in Pages }

\* except urllib.error.URLError (line 245)
PageCaught(exc) == exc = "URLError"

\* ensure_pdf's download: done, or the exception it raises
DownloadOutcomes == {"ok", "URLError", "TimeoutError"}

\* extract_text: the engine that wrote the text, or the exception of a failed
\* pdftotext, a failed pypdf or no engine at all
ExtractOutcomes == {"pdftotext", "pypdf", "RuntimeError"}

\* only a URLError of the document is handled
DocCaughtURLError(exc) == exc = "URLError"

\* except Exception (line 274)
DocCaught(exc) == exc \in {"URLError", "TimeoutError", "RuntimeError"}

\* the cache is saved when the run ends: the file stays as it is meanwhile
save_cache_later(c) == cacheFile

\* save_cache: the content of the cache file after json.dump of the cache, as
\* json.load reads it back (a dict of texts and lists of texts is read back
\* as it was written)
save_cache(c) == c

\* load_cache: the dict of the cache file, the empty dict for a missing file
load_cache(file) == file

\* cache.get(submission_id, {}).get("summary_links")
CachedLinks(c, submission_id) ==
    GetOr(GetOr(c, submission_id, <<>>), "summary_links", None)

\* the page is fetched whatever the cache holds
NeedsFetchAlways(summary_links, force) == TRUE

\* if not summary_links or args.force
NeedsFetch(summary_links, force) == summary_links = <<>> \/ force

\* to_download = summary_links if args.all else summary_links[:1]
Selected(summary_links, all) ==
    IF all THEN summary_links ELSE SubSeq(summary_links, 1, 1)

\* suffix = f"-{index}" if args.all else ""
Suffix(index, all) == IF all THEN "-" \o Char(Digits, index + 1) ELSE ""

PdfPath(submission_id, index, all) == submission_id \o Suffix(index, all) \o ".pdf"

TextPath(submission_id, index, all) == submission_id \o Suffix(index, all) \o ".txt"

\* the text of the document is written whether or not it exists
SkipNever(text_path, force) == FALSE

\* if text_path.exists() and not args.force: continue
SkipDocument(text_path, force) == text_path \in DOMAIN textFiles /\ ~force

\* ensure_pdf: if pdf_path.exists() and not force: return
PdfKept(pdf_path, force) == pdf_path \in DOMAIN pdfFiles /\ ~force

\* fetched, complete: positions of records; selected: <<record, number of
\* documents selected for it>>; the others: <<record, document>>
NoLog == [fetched |-> {}, selected |-> {}, downloaded |-> {}, extracted |-> {},
          failed |-> {}, visited |-> {}, complete |-> {}]

\* the record's cached list is not empty and the text of every document the
\* mode selects from it exists
Complete(submission_id) ==
    LET links == CachedLinks(link_cache, submission_id)
        sel == Selected(links, args.all)
    IN  /\ links # <<>>
        /\ \A k \in 1..Len(sel) : TextPath(submission_id, k, args.all) \in DOMAIN textFiles

\* lines 210-229: the arguments are parsed, the records and the cache are loaded
XStartRun ==
    /\ xpc = "idle"
    /\ \E recs \in SeqsUpTo(InputRecords, MaxRecords),
          force \in BOOLEAN, all \in BOOLEAN, limit \in Limits :
          /\ records' = recs
          /\ args' = [force |-> force, all |-> all, limit |-> limit]
    /\ link_cache' = load_cache(cacheFile)
    /\ loaded' = cacheFile
    /\ loadedFailed' = failedIds
    /\ rpos' = 1
    /\ processed' = 0
    /\ to_download' = <<>>
    /\ dpos' = 1
    /\ xlog' = NoLog
    /\ xpc' = "records"
    /\ UNCHANGED <<cacheFile, pdfFiles, textFiles, failedIds>>
    /\ UNCHANGED <<enrichVars, rankVars, callVars>>

\* lines 256-259: the record is left if it has no link, its documents are next
Proceed(summary_links, log) ==
    IF summary_links = <<>>
    THEN /\ rpos' = rpos + 1
         /\ xlog' = log
         /\ UNCHANGED <<xpc, to_download, dpos>>
    ELSE /\ to_download' = Selected(summary_links, args.all)
         /\ dpos' = 1
         /\ xpc' = "docs"
         /\ rpos' = rpos
         /\ xlog' = [log EXCEPT !.selected =
                        @ \cup {<<rpos, Len(Selected(summary_links, args.all))>>}]

\* lines 230-259: one iteration of the loop over the records, up to its documents
RecordStep ==
    /\ xpc = "records"
    /\ rpos <= Len(records)
    /\ LET submission_id == Strip(records[rpos].submission_id)
           submission_url == Strip(records[rpos].submission_url)
           cached_links == CachedLinks(link_cache, submission_id)
           seen == [xlog EXCEPT !.complete =
                       IF Complete(submission_id) THEN @ \cup {rpos} ELSE @]
           fetch == [seen EXCEPT !.fetched = @ \cup {rpos}]
       IN  IF submission_id = "" \/ submission_url = ""
           THEN /\ rpos' = rpos + 1
                /\ UNCHANGED <<xpc, to_download, dpos, link_cache, cacheFile, failedIds, xlog>>
           ELSE IF args.limit # 0 /\ processed >= args.limit
           THEN /\ xpc' = "done"
                /\ UNCHANGED <<rpos, to_download, dpos, link_cache, cacheFile, failedIds, xlog>>
           ELSE IF NeedsFetch(cached_links, args.force)
           THEN \E page \in PageOutcomes :
                   IF page.exc = ""
                   THEN LET summary_links == RankedUrls[submission_url, page.links]
                            entry == [summary_links |-> summary_links]
                        IN  /\ link_cache' = Put(link_cache, submission_id, entry)
                            /\ cacheFile' = save_cache(link_cache')
                            /\ failedIds' = failedIds \ {submission_id}
                            /\ Proceed(summary_links, fetch)
                   ELSE IF PageCaught(page.exc)
                   THEN /\ link_cache' =
                             Put(link_cache, submission_id, [summary_links |-> <<>>])
                        /\ cacheFile' = save_cache(link_cache')
                        /\ failedIds' = failedIds \cup {submission_id}
                        /\ rpos' = rpos + 1
                        /\ xlog' = fetch
                        /\ UNCHANGED <<xpc, to_download, dpos>>
                   ELSE /\ xpc' = "aborted"
                        /\ xlog' = fetch
                        /\ UNCHANGED <<rpos, to_download, dpos, link_cache, cacheFile, failedIds>>
           ELSE /\ Proceed(cached_links, seen)
                /\ UNCHANGED <<link_cache, cacheFile, failedIds>>
    /\ UNCHANGED <<args, records, pdfFiles, textFiles, processed, loaded, loadedFailed>>
    /\ UNCHANGED <<enrichVars, rankVars, callVars>>

\* lines 261-279: one iteration of the loop over the documents of the record
DocStep ==
    /\ xpc = "docs"
    /\ LET submission_id == Strip(records[rpos].submission_id)
           pdf_url == to_download[dpos]
           pdf_path == PdfPath(submission_id, dpos, args.all)
           text_path == TextPath(submission_id, dpos, args.all)
           here == <<rpos, dpos>>
           next == /\ dpos' = dpos + 1
                   /\ IF dpos + 1 > Len(to_download)
                      THEN /\ processed' = processed + 1
                           /\ rpos' = rpos + 1
                           /\ xpc' = "records"
                      ELSE UNCHANGED <<processed, rpos, xpc>>
           abort == /\ xpc' = "aborted"
                    /\ UNCHANGED <<dpos, processed, rpos>>
           visit == [xlog EXCEPT !.visited = @ \cup {here}]
       IN  IF SkipDocument(text_path, args.force)
           THEN /\ next
                /\ xlog' = visit
                /\ UNCHANGED <<pdfFiles, textFiles>>
           ELSE \E download \in DownloadOutcomes, extract \in ExtractOutcomes :
                   LET kept == PdfKept(pdf_path, args.force)
                       tried == IF kept THEN visit
                                ELSE [visit EXCEPT !.downloaded = @ \cup {here}]
                   IN  IF ~kept /\ download # "ok"
                       THEN /\ xlog' = [tried EXCEPT !.failed = @ \cup {here}]
                            /\ UNCHANGED <<pdfFiles, textFiles>>
                            /\ IF DocCaught(download) THEN next ELSE abort
                       ELSE /\ pdfFiles' = IF kept THEN pdfFiles
                                           ELSE Put(pdfFiles, pdf_path, pdf_url)
                            /\ IF extract \in {"pdftotext", "pypdf"}
                               THEN /\ textFiles' =
                                         Put(textFiles, text_path, pdfFiles'[pdf_path])
                                    /\ xlog' = [tried EXCEPT !.extracted = @ \cup {here}]
                                    /\ next
                               ELSE /\ xlog' = [tried EXCEPT !.extracted = @ \cup {here},
                                                             !.failed = @ \cup {here}]
                                    /\ UNCHANGED textFiles
                                    /\ IF DocCaught(extract) THEN next ELSE abort
    /\ UNCHANGED <<args, records, link_cache, cacheFile, to_download, loaded,
                   failedIds, loadedFailed>>
    /\ UNCHANGED <<enrichVars, rankVars, callVars>>

\* the loop over the records is over
XFinish ==
    /\ xpc = "records"
    /\ rpos > Len(records)
    /\ xpc' = "done"
    /\ UNCHANGED <<args, records, link_cache, cacheFile, pdfFiles, textFiles,
                   rpos, to_download, dpos, processed, loaded, failedIds,
                   loadedFailed, xlog>>
    /\ UNCHANGED <<enrichVars, rankVars, callVars>>

\* no run of extract_summaries.main is in progress
NoProcess ==
    /\ xpc = "idle"
    /\ args = [force |-> FALSE, all |-> FALSE, limit |-> 0]
    /\ records = <<>>
    /\ link_cache = <<>>
    /\ rpos = 1
    /\ to_download = <<>>
    /\ dpos = 1
    /\ processed = 0
    /\ loaded = <<>>
    /\ loadedFailed = {}
    /\ xlog = NoLog

\* the process of a finished or aborted run ends: its memory is gone, the
\* files stay
XExit ==
    /\ xpc \in {"done", "aborted"}
    /\ xpc' = "idle"
    /\ args' = [force |-> FALSE, all |-> FALSE, limit |-> 0]
    /\ records' = <<>>
    /\ link_cache' = <<>>
    /\ rpos' = 1
    /\ to_download' = <<>>
    /\ dpos' = 1
    /\ processed' = 0
    /\ loaded' = <<>>
    /\ loadedFailed' = {}
    /\ xlog' = NoLog
    /\ UNCHANGED <<cacheFile, pdfFiles, textFiles, failedIds>>
    /\ UNCHANGED <<enrichVars, rankVars, callVars>>

\* extract_summaries.main has not run: no cache file, no document, no text
IdleExtract ==
    /\ NoProcess
    /\ cacheFile = <<>>
    /\ pdfFiles = <<>>
    /\ textFiles = <<>>
    /\ failedIds = {}

-----------------------------------------------------------------------------
(* update_data.py: fetch_openfda *)

retries == 3

EmptyResult == [received_date |-> "", decision_date_openfda |-> ""]

\* the identifier looked up in the letter case the caller gave it
NormalizedIdAsGiven(submission_id) == submission_id

\* submission_id = submission_id.upper()
NormalizedId(submission_id) == Upper(submission_id)

\* cached = cache.get(submission_id)
CacheGet(c, submission_id) == GetOr(c, submission_id, None)

\* a hit only on an entry that holds a received date
CacheHitWithDate(c, submission_id) ==
    /\ Truthy(CacheGet(c, submission_id))
    /\ CacheGet(c, submission_id).received_date # ""

\* if cached: return cached
CacheHit(c, submission_id) == Truthy(CacheGet(c, submission_id))

\* the endpoint and query field of an identifier family, None for the others
Endpoint(submission_id) ==
    IF StartsWith(submission_id, "K")
    THEN Some([endpoint |-> "https://api.fda.gov/device/510k.json", query_field |-> "k_number"])
    ELSE IF StartsWith(submission_id, "P")
    THEN Some([endpoint |-> "https://api.fda.gov/device/pma.json", query_field |-> "pma_number"])
    ELSE None

\* an empty dict cached when the service reports no match
ZeroEntryEmptyDict(query_field) == <<>>

\* the entry cached when the service reports no match
ZeroEntry(query_field) ==
    [received_date |-> "", decision_date_openfda |-> "", source |-> query_field]

\* the entry cached for the first result of the service
MatchEntry(record, query_field) ==
    LET received_raw ==
            IF GetOr(record, "received_date", "") # "" THEN record["received_date"]
            ELSE IF GetOr(record, "date_received", "") # "" THEN record["date_received"]
            ELSE GetOr(record, "receive_date", "")
        decision_raw == GetOr(record, "decision_date", "")
    IN  [received_date |-> normalize_date(received_raw),
         decision_date_openfda |-> normalize_date(decision_raw),
         source |-> query_field]

\* What download_url and the decoding of its payload do in one attempt.
\*   URLError       urlopen raises urllib.error.URLError (HTTPError included)
\*   TimeoutError   the read of the body times out: socket.timeout, no URLError
\*   BadBytes       the body is not UTF-8: payload.decode raises UnicodeDecodeError
\*   BadJson        the text is not JSON: json.loads raises JSONDecodeError
\*   NotObject      the JSON value is no object: data.get raises AttributeError
\*   Object         the JSON value is the object in "data"
ServiceRecords ==
    { [date_received |-> "2020-01-10", decision_date |-> "20200301"],
      [received_date |-> "03/01/2020", decision_date |-> "2020-01-10"],
      [decision_date |-> "junk"] }

ServiceData ==
    { [error |-> "NOT_FOUND"], [results |-> <<>>] }
        \cup { [results |-> <<r>>] : r \in ServiceRecords }

Replies ==
    { [kind |-> k] : k \in {"URLError", "TimeoutError", "BadBytes", "BadJson", "NotObject"} }
        \cup { [kind |-> "Object", data |-> d] : d \in ServiceData }

\* the exception the try body raises on a reply, "" when it raises none
Raised(reply) ==
    CASE reply.kind = "URLError" -> "URLError"
      [] reply.kind = "TimeoutError" -> "TimeoutError"
      [] reply.kind = "BadBytes" -> "UnicodeDecodeError"
      [] reply.kind = "BadJson" -> "JSONDecodeError"
      [] reply.kind = "NotObject" -> "AttributeError"
      [] OTHER -> ""

\* results = data.get("results") or []
Results(reply) == GetOr(reply.data, "results", <<>>)

\* except (urllib.error.URLError, json.JSONDecodeError)
Caught(exc) == exc \in {"URLError", "JSONDecodeError"}

\* if attempt == retries - 1: break
LastAttempt(attempt) == attempt = retries - 1

\* one thing a call of fetch_openfda does:
\*   "net"      download_url(url), line 160
\*   "write"    cache[submission_id] = ..., line 164 or 180
\*   "delay"    time.sleep(throttle), line 185
\*   "backoff"  time.sleep(throttle * (attempt + 1)), line 190
\* sleep is the time slept, in units of throttle
Event(ev, sleep) == [ev |-> ev, sleep |-> sleep]

\* the same sleep after every failed attempt
BackoffConstant(attempt) == 1

\* throttle * (attempt + 1), in units of throttle
Backoff(attempt) == attempt + 1

\* the delay is slept after every write of the cache
PostCallAlways(zero) == << Event("write", 0), Event("delay", 1) >>

\* lines 163-186: the cache is written, and after the entry of a match, not
\* after the entry of no match, throttle is slept
PostCall(zero) ==
    IF zero THEN << Event("write", 0) >>
    ELSE << Event("write", 0), Event("delay", 1) >>

\* a failure of the network or of the decoding of the response
NetworkOrDecodeFailure(reply) ==
    reply.kind \in {"URLError", "TimeoutError", "BadBytes", "BadJson"}

-----------------------------------------------------------------------------
(* update_data.py: main *)

\* identifiers parse_submission leaves in the records of the feed
FeedIds == {"", "K1", "P2", "DEN3"}

\* arguments a caller may hand to fetch_openfda
AnyCaseIds == FeedIds \cup {"k1", "p2"}

\* a record as parse_xml_rows builds it (the fields the enrichment touches)
NewRow(submission_id) ==
    [submission_id |-> submission_id, received_date |-> "",
     decision_date_openfda |-> "", days_to_decision |-> None]

\* the cache of the previous run kept for the next one
KeptCache == cache

\* cache = {} if not args.skip_openfda else {}
FreshCache == <<>>

\* trace: what the call has done so far, in order; see Event
NoFrame == [submission_id |-> "", query_field |-> "", attempt |-> 0,
            net |-> 0, fails |-> 0, before |-> <<>>, trace |-> <<>>]

NoCall == [arg |-> "", outcome |-> "none", hit |-> FALSE, net |-> 0, fails |-> 0,
           zero |-> FALSE, ret |-> EmptyResult, before |-> <<>>, trace |-> <<>>]

\* lines 282-286: the three fields main sets from the result of the call
Enriched(record, openfda) ==
    LET received == GetOr(openfda, "received_date", "")
        decision == GetOr(openfda, "decision_date_openfda", "")
    IN  [record EXCEPT !.received_date = received,
                       !.decision_date_openfda = decision,
                       !.days_to_decision = days_between(received, decision)]

\* fetch_openfda returns openfda to the loop of main, which moves on
Return(openfda, newCache, call) ==
    /\ rows' = [rows EXCEPT ![i] = Enriched(rows[i], openfda)]
    /\ i' = i + 1
    /\ cache' = newCache
    /\ pc' = "loop"
    /\ frame' = NoFrame
    /\ lastCall' = call

RunState(feed, skip) ==
    /\ rows' = [k \in 1..Len(feed) |-> NewRow(feed[k])]
    /\ cache' = FreshCache
    /\ i' = IF skip THEN Len(feed) + 1 ELSE 1
    /\ pc' = "loop"
    /\ frame' = NoFrame
    /\ lastCall' = NoCall
    /\ looked' = {}
    /\ missed' = {}

\* a run of main up to the enrichment loop
StartRun ==
    /\ pc \in {"idle", "done", "aborted"}
    /\ run < MaxRuns
    /\ \E feed \in SeqsUpTo(FeedIds, MaxRows), skip_openfda \in BOOLEAN :
          RunState(feed, skip_openfda)
    /\ run' = run + 1
    /\ prevCached' = DOMAIN cache
    /\ UNCHANGED <<rankVars, extractVars, callVars>>

\* lines 139-156 of fetch_openfda, called for the record at i
CallFetch ==
    /\ pc = "loop"
    /\ i <= Len(rows)
    /\ LET arg == rows[i].submission_id
           submission_id == NormalizedId(arg)
           call == [NoCall EXCEPT !.arg = arg, !.outcome = "return", !.before = cache]
       IN  IF arg = ""
           THEN Return(EmptyResult, cache, call)
           ELSE IF CacheHit(cache, submission_id)
           THEN Return(CacheGet(cache, submission_id), cache,
                       [call EXCEPT !.hit = TRUE, !.ret = CacheGet(cache, submission_id)])
           ELSE IF Endpoint(submission_id) = None
           THEN Return(EmptyResult, cache, call)
           ELSE /\ pc' = "attempt"
                /\ frame' = [NoFrame EXCEPT !.submission_id = submission_id,
                                !.query_field = Endpoint(submission_id)[1].query_field,
                                !.before = cache]
                /\ UNCHANGED <<rows, i, cache, lastCall>>
    /\ UNCHANGED <<run, looked, missed, prevCached>>
    /\ UNCHANGED <<rankVars, extractVars, callVars>>

\* one iteration of the retry loop, lines 158-192
Attempt ==
    /\ pc = "attempt"
    /\ \E reply \in Replies :
          LET exc == Raised(reply)
              zero == exc = "" /\ Results(reply) = <<>>
              net == frame.net + 1
              fails == frame.fails + (IF NetworkOrDecodeFailure(reply) THEN 1 ELSE 0)
              trace == Append(frame.trace, Event("net", 0))
              call == [NoCall EXCEPT !.arg = rows[i].submission_id, !.net = net,
                          !.fails = fails, !.zero = zero, !.before = frame.before,
                          !.trace = trace]
          IN  /\ missed' = IF zero THEN missed \cup {frame.submission_id} ELSE missed
              /\ IF exc = ""
                 THEN LET entry == IF zero
                                   THEN ZeroEntry(frame.query_field)
                                   ELSE MatchEntry(Results(reply)[1], frame.query_field)
                          newCache == Put(cache, frame.submission_id, entry)
                      IN  Return(GetOr(newCache, frame.submission_id, None), newCache,
                                 [call EXCEPT !.outcome = "return",
                                     !.ret = GetOr(newCache, frame.submission_id, None),
                                     !.trace = trace \o PostCall(zero)])
                 ELSE IF ~Caught(exc)
                 THEN /\ pc' = "aborted"
                      /\ frame' = NoFrame
                      /\ lastCall' = [call EXCEPT !.outcome = "raise"]
                      /\ UNCHANGED <<rows, i, cache>>
                 ELSE IF LastAttempt(frame.attempt)
                 THEN Return(EmptyResult, cache, [call EXCEPT !.outcome = "return"])
                 ELSE /\ frame' = [frame EXCEPT !.attempt = frame.attempt + 1,
                                                !.net = net, !.fails = fails,
                                                !.trace = Append(trace,
                                                    Event("backoff", Backoff(frame.attempt)))]
                      /\ UNCHANGED <<pc, rows, i, cache, lastCall>>
    /\ looked' = looked \cup {frame.submission_id}
    /\ UNCHANGED <<run, prevCached>>
    /\ UNCHANGED <<rankVars, extractVars, callVars>>

\* lines 288-289: the loop is over, the data is written
Finish ==
    /\ pc = "loop"
    /\ i > Len(rows)
    /\ pc' = "done"
    /\ UNCHANGED <<run, rows, i, cache, frame, lastCall, looked, missed, prevCached>>
    /\ UNCHANGED <<rankVars, extractVars, callVars>>

\* update_data.main has not run
IdleEnrich ==
    /\ pc = "idle"
    /\ run = 0
    /\ rows = <<>>
    /\ i = 1
    /\ cache = <<>>
    /\ frame = NoFrame
    /\ lastCall = NoCall
    /\ looked = {}
    /\ missed = {}
    /\ prevCached = {}

\* no function is called on its own
NoCalled == [fn |-> "", args |-> <<>>]

IdleCalls ==
    /\ called = NoCalled
    /\ returned = None

\* find_summary_pdfs has not been called
IdleRank ==
    /\ html_links = <<>>
    /\ base_url = ""
    /\ candidates = None

Init == IdleEnrich /\ IdleRank /\ IdleExtract /\ IdleCalls

Next == StartRun \/ CallFetch \/ Attempt \/ Finish

Spec == Init /\ [][Next]_vars

\* fetch_openfda called for every identifier of a list, in any letter case, on one
\* cache that starts empty
InitFetch ==
    /\ pc = "loop"
    /\ run = 1
    /\ rows \in { [k \in 1..Len(ids) |-> NewRow(ids[k])] : ids \in SeqsUpTo(AnyCaseIds, MaxCalls) }
    /\ i = 1
    /\ cache = FreshCache
    /\ frame = NoFrame
    /\ lastCall = NoCall
    /\ looked = {}
    /\ missed = {}
    /\ prevCached = {}
    /\ IdleRank
    /\ IdleExtract
    /\ IdleCalls

NextFetch == CallFetch \/ Attempt

SpecFetch == InitFetch /\ [][NextFetch]_vars

\* find_summary_pdfs applied to the anchors of any page
InitRank ==
    /\ IdleEnrich
    /\ IdleExtract
    /\ IdleCalls
    /\ html_links \in SeqsUpTo(Anchors, MaxLinks)
    /\ base_url \in PageUrls
    /\ candidates = None

NextRank == Rank

SpecRank == InitRank /\ [][NextRank]_vars

\* runs of extract_summaries.main, one after the other on the same files
InitExtract == IdleEnrich /\ IdleRank /\ IdleExtract /\ IdleCalls

NextExtract == XStartRun \/ RecordStep \/ DocStep \/ XFinish \/ XExit

SpecExtract == InitExtract /\ [][NextExtract]_vars

-----------------------------------------------------------------------------
(* update_data.py: clean_text, build_submission_url, parse_submission, parse_xml_rows *)

\* the characters of [\x00-\x1f] a TLA+ string can hold
ControlChars == {"\t", "\n", "\r", "\f"}

\* \s of the regular expressions: the blank and the control characters above
IsSpace(c) == c = " " \/ c \in ControlChars

\* CONTROL_RE.sub("", text)
RECURSIVE RemoveControls(_)
RemoveControls(s) ==
    IF s = "" THEN ""
    ELSE (IF Char(s, 1) \in ControlChars THEN "" ELSE Char(s, 1))
            \o RemoveControls(SubSeq(s, 2, Len(s)))

\* str.strip(): blanks and control characters off both ends
RECURSIVE StripSpace(_)
StripSpace(s) ==
    IF s = "" THEN ""
    ELSE IF IsSpace(Char(s, 1)) THEN StripSpace(SubSeq(s, 2, Len(s)))
    ELSE IF IsSpace(Char(s, Len(s))) THEN StripSpace(SubSeq(s, 1, Len(s) - 1))
    ELSE s

\* clean_text on ASCII text, in which REPLACEMENTS finds nothing
clean_text(value) == StripSpace(RemoveControls(value))

\* every identifier is given the 510(k) page
build_submission_url_one_template(submission_id) ==
    IF submission_id = "" THEN ""
    ELSE "https://www.accessdata.fda.gov/scripts/cdrh/cfdocs/cfPMN/pmn.cfm?ID="
            \o Upper(submission_id)

build_submission_url(submission_id) ==
    IF submission_id = "" THEN ""
    ELSE LET id == Upper(submission_id)
             cfdocs == "https://www.accessdata.fda.gov/scripts/cdrh/cfdocs/"
         IN  IF StartsWith(id, "K") THEN cfdocs \o "cfPMN/pmn.cfm?ID=" \o id
             ELSE IF StartsWith(id, "P") THEN cfdocs \o "cfpma/pma.cfm?id=" \o id
             ELSE IF StartsWith(id, "DEN") THEN cfdocs \o "cfpmn/denovo.cfm?id=" \o id
             ELSE ""

\* s[from-1:to] of Python: the characters of s at the positions from..to it has
Slice(s, from, to) ==
    IF from > Len(s) \/ to < from THEN ""
    ELSE SubSeq(s, from, IF to > Len(s) THEN Len(s) ELSE to)

\* the character classes \d, \s and [^\s\)\"] of the regular expressions
InClass(class, c) ==
    CASE class = "\\d" -> IsDigit(c)
      [] class = "\\s" -> IsSpace(c)
      [] OTHER -> ~IsSpace(c) /\ c # ")" /\ c # "\""

\* the number of characters of the class from position from on, up to the
\* first that is not of it
RECURSIVE RunLength(_, _, _)
RunLength(s, from, class) ==
    IF from > Len(s) \/ ~InClass(class, Char(s, from)) THEN 0
    ELSE 1 + RunLength(s, from + 1, class)

\* s[k-1:k] of Python: the character at position k, "" past the end
CharAt(s, k) == Slice(s, k, k)

\* the least position of a set of positions, 0 for the empty set
FirstOf(positions) ==
    IF positions = {} THEN 0 ELSE CHOOSE k \in positions : \A j \in positions : k <= j

\* DEN, K or P at position k of text followed by n digits, "" if n is 0
IdOfLength(text, k, letters, n) ==
    IF n > 0 THEN SubSeq(text, k, k + letters - 1 + n) ELSE ""

\* what SUBMISSION_ID_RE matches at position k of text, "" if nothing
IdAt(text, k) ==
    IF Upper(Slice(text, k, k + 2)) = "DEN" /\ IsDigit(CharAt(text, k + 3))
    THEN IdOfLength(text, k, 3, RunLength(text, k + 3, "\\d"))
    ELSE IF UpperChar(Char(text, k)) \in {"K", "P"}
    THEN IdOfLength(text, k, 1, RunLength(text, k + 1, "\\d"))
    ELSE ""

\* group 1 of the match at position k, "" for k = 0
IdAtFound(text, k) == IF k = 0 THEN "" ELSE IdAt(text, k)

\* SUBMISSION_ID_RE.search(text): group 1 of the leftmost match, "" if none
SearchId(text) ==
    IdAtFound(text, FirstOf({ k \in 1..Len(text) : IdAt(text, k) # "" }))

\* the scheme at position k of text with the n characters of the URL after it
UrlOfLength(text, k, scheme, n) ==
    IF scheme > 0 /\ n > 0 THEN SubSeq(text, k, k + scheme + n - 1) ELSE ""

\* the length of http:// or https:// at position k of text, 0 if neither is there
SchemeAt(text, k) ==
    IF Slice(text, k, k + 6) = "http://" THEN 7
    ELSE IF Slice(text, k, k + 7) = "https://" THEN 8
    ELSE 0

\* the characters of [^\s\)\"] at position k + scheme of text
UrlRest(text, k, scheme) ==
    UrlOfLength(text, k, scheme, RunLength(text, k + scheme, "[^\\s\\)\\\"]"))

\* what https?://[^\s\)\"]+ matches at position k of text, "" if nothing
UrlAt(text, k) == UrlRest(text, k, SchemeAt(text, k))

\* the match at position k, "" for k = 0
UrlAtFound(text, k) == IF k = 0 THEN "" ELSE UrlAt(text, k)

\* re.search(r"https?://[^\s\)\"]+", text): the leftmost match, "" if none
SearchUrl(text) ==
    UrlAtFound(text, FirstOf({ k \in 1..Len(text) : UrlAt(text, k) # "" }))

\* ...",\s*"([^"]+)"\): the second group lies between open2 and close2
HyperlinkGroups(text, open1, close1, open2, close2) ==
    IF close2 > open2 + 1 /\ CharAt(text, close2 + 1) = ")"
    THEN Some(<< SubSeq(text, open1 + 1, close1 - 1),
                 SubSeq(text, open2 + 1, close2 - 1) >>)
    ELSE None

\* the quote that opens the second group is at open2
HyperlinkSecond(text, open1, close1, open2) ==
    IF CharAt(text, open2) = "\""
    THEN HyperlinkGroups(text, open1, close1, open2, Find(text, "\"", open2 + 1))
    ELSE None

\* the first group lies between open1 and close1; a comma and \s* follow
HyperlinkFirst(text, open1, close1) ==
    IF close1 > open1 + 1 /\ CharAt(text, close1 + 1) = ","
    THEN HyperlinkSecond(text, open1, close1,
                         close1 + 2 + RunLength(text, close1 + 2, "\\s"))
    ELSE None

\* the groups of HYPERLINK\("([^"]+)",\s*"([^"]+)"\) matched at position k of
\* text in any letter case, None if it does not match there
HyperlinkAt(text, k) ==
    IF Upper(Slice(text, k, k + 9)) = "HYPERLINK(" /\ CharAt(text, k + 10) = "\""
    THEN HyperlinkFirst(text, k + 10, Find(text, "\"", k + 11))
    ELSE None

\* the groups of the match at position k, None for k = 0
HyperlinkAtFound(text, k) == IF k = 0 THEN None ELSE HyperlinkAt(text, k)

\* re.search of the hyperlink directive: the groups of the leftmost match
SearchHyperlink(text) ==
    HyperlinkAtFound(text, FirstOf({ k \in 1..Len(text) : HyperlinkAt(text, k) # None }))

\* lines 106-107: url and submission_id of a directive
FromDirective(groups) ==
    [url |-> StripSpace(groups[1]), submission_id |-> Upper(StripSpace(groups[2]))]

\* lines 112-114: the identifier of the raw text, or else the one of the URL
IdMatch(in_raw, url) == IF in_raw = "" /\ url # "" THEN SearchId(url) ELSE in_raw

\* lines 109-116: url and submission_id of a text without a directive
FromText(raw, url) == [url |-> url, submission_id |-> Upper(IdMatch(SearchId(raw), url))]

\* lines 105-116
FirstPass(raw, hyperlink_match) ==
    IF hyperlink_match # None THEN FromDirective(hyperlink_match[1])
    ELSE FromText(raw, SearchUrl(raw))

\* lines 118-121: an identifier still missing is looked for in the URL
IdFromUrl(found) ==
    IF found.submission_id = "" /\ found.url # ""
    THEN [found EXCEPT !.submission_id = Upper(SearchId(found.url))]
    ELSE found

\* lines 123-124: a URL still missing is built from the identifier
UrlFromId(found) ==
    IF found.url = "" /\ found.submission_id # ""
    THEN [found EXCEPT !.url = build_submission_url(found.submission_id)]
    ELSE found

\* return submission_id, url
AsPair(found) == << found.submission_id, found.url >>

\* lines 100-126 on the stripped text
ParseStripped(raw) == AsPair(UrlFromId(IdFromUrl(FirstPass(raw, SearchHyperlink(raw)))))

\* parse_submission: the pair (submission_id, url)
parse_submission(raw_value) == ParseStripped(StripSpace(raw_value))

\* str.isdigit of an ASCII text
IsDigits(s) == s # "" /\ \A k \in 1..Len(s) : IsDigit(Char(s, k))

\* lines 207-211: the year of a decision date written MM/DD/YYYY, 0 otherwise
YearOf(decision_date) ==
    LET slashes == { k \in 1..Len(decision_date) : Char(decision_date, k) = "/" }
        last == CHOOSE k \in slashes : \A j \in slashes : k >= j
        tail == SubSeq(decision_date, last + 1, Len(decision_date))
    IN  IF Cardinality(slashes) = 2 /\ IsDigits(tail) THEN ToInt(tail) ELSE 0

\* lines 213-228: the record of a row, without the texts that go through
\* clean_text alone
NewRecord(decision_date, submission) ==
    [date |-> decision_date,
     year |-> YearOf(decision_date),
     submission_id |-> submission[1],
     submission_url |-> submission[2],
     summary_url |-> "",
     received_date |-> "",
     decision_date_openfda |-> "",
     days_to_decision |-> None]

\* the record parse_xml_rows builds from the decision date and the submission
\* number of one row of the feed
parse_xml_row(date_text, submission_raw) ==
    NewRecord(clean_text(date_text), parse_submission(submission_raw))

\* the pattern of the embedded data block: const rawData = \[.*?\];
BlockHead == "const rawData = ["

BlockEnd == "];"

\* the replacement re.subn builds from its template: the template with every
\* escaped backslash turned into one backslash (an escaped quote stays as it is)
RECURSIVE Expand(_)
Expand(template) ==
    IF template = "" THEN ""
    ELSE IF Slice(template, 1, 2) = "\\\\"
    THEN "\\" \o Expand(Slice(template, 3, Len(template)))
    ELSE Char(template, 1) \o Expand(Slice(template, 2, Len(template)))

\* re.subn of the pattern on content from position from on, with flags=re.S:
\* every match, the shortest from a head to the next end, is replaced
RECURSIVE Subn(_, _, _)
Subn(content, from, replacement) ==
    LET head == Find(content, BlockHead, from)
        end == IF head = 0 THEN 0 ELSE Find(content, BlockEnd, head + Len(BlockHead))
    IN  IF head = 0 \/ end = 0
        THEN [new_content |-> Slice(content, from, Len(content)), count |-> 0]
        ELSE LET rest == Subn(content, end + Len(BlockEnd), replacement)
             IN  [new_content |-> Slice(content, from, head - 1) \o replacement
                                      \o rest.new_content,
                  count |-> rest.count + 1]

\* the block is replaced wherever it is found, once or more
update_index_html_every_block(content, data_json) ==
    LET sub == Subn(content, 1, Expand("const rawData = " \o data_json \o ";"))
    IN  IF sub.count = 0
        THEN [exc |-> "RuntimeError", content |-> content, written |-> FALSE]
        ELSE [exc |-> "", content |-> sub.new_content,
              written |-> sub.new_content # content]

\* update_index_html on the text of the document and json.dumps(data): the
\* exception it raises, the text of the document after it and whether it wrote
update_index_html(content, data_json) ==
    LET sub == Subn(content, 1, Expand("const rawData = " \o data_json \o ";"))
    IN  IF sub.count # 1
        THEN [exc |-> "RuntimeError", content |-> content, written |-> FALSE]
        ELSE [exc |-> "", content |-> sub.new_content,
              written |-> sub.new_content # content]

-----------------------------------------------------------------------------
(* Functions of the two scripts called on their own *)

\* date texts as the service and the feed write them, well formed or not
RawDates ==
    { "", "2020-01-10", "2020/03/01", "03/01/2020", "20200110", "2019-12-31",
      "2020-02-29", "2021-02-29", "2020-13-01", " 2021-01-01 ", "junk" }

\* arguments of days_between: what normalize_date returns, and texts that are
\* no ISO date
DateTexts ==
    { normalize_date(raw) : raw \in RawDates } \cup { "junk", "03/01/2020", " 2020-03-01" }

\* what fetch_openfda may return to main
OpenfdaResults ==
    { EmptyResult, ZeroEntry("k_number") }
        \cup { MatchEntry([date_received |-> a, decision_date |-> b], "pma_number") :
                   a \in RawDates, b \in RawDates }

\* Date_of_final_decision texts of the feed
FeedDates ==
    { "", "03/01/2020", " 03/01/2020\n", "2020-03-01", "2020/03/01", "20200301",
      "3/1/2020", "junk" }

\* Submission_number texts of the feed
SubmissionRaws ==
    { "", "K123456", "k123456", "den200001", "P160001", "See K123 (cleared)",
      "https://x.y/pmn.cfm?ID=K99", "http://a/b", "N/A", "X99", " K5 ", "BK200",
      "DEN", "K", "D123", "PK12", "P1 and DEN2", "\tden5\n",
      "=HYPERLINK(\"https://x/pmn.cfm?ID=K1\",\"K1\")",
      "=hyperlink(\"https://x/a\", \"see\")",
      "=HYPERLINK(\"https://x/a?id=P7\", \" \")",
      "HYPERLINK(\"https://x/a\",\"k7 \")",
      "HYPERLINK(\"\", \"K1\")" }

\* pieces of a display document: data blocks, and texts that are none
DataBlocks == { "const rawData = [1];", "const rawData = [\n  {\"id\": \"K1\"}\n];" }

OtherPieces == { "<p>x[0];</p>", "const rawdata = [0];", "const rawData = 1;" }

\* the text of a document made of pieces
RECURSIVE Join(_)
Join(pieces) == IF pieces = <<>> THEN "" ELSE pieces[1] \o Join(Tail(pieces))

\* json.dumps(data, ensure_ascii=False) of datasets: empty, the one of the
\* first block, one record, one record with a backslash in a text
DataJsons ==
    { "[]", "[1]", "[{\"date\": \"03/01/2020\"}]", "[{\"device\": \"A\\\\B\"}]" }

\* anchor texts and URLs of document links
LinkTexts ==
    { "", "Summary", "510(k) Summary", "Document", "Labeling",
      "Decision summary and review", "SSED", "Instructions for Use (IFU)" }

LinkUrls ==
    { "", "https://h/c/s.pdf", "https://h/summary.pdf", "https://h/label.pdf",
      "https://h/SSED_Summary.PDF" }

\* arguments of build_submission_url
UrlIds == { "", "K1", "k1", "P2", "DEN3", "den3", "X9", "D1", "KEN" }

DaysBetweenCalls == { [fn |-> "days_between", args |-> <<a, b>>] : a, b \in DateTexts }

EnrichCalls == { [fn |-> "enrich", args |-> <<openfda>>] : openfda \in OpenfdaResults }

\* days_between(start_iso, end_iso)
CallDaysBetween ==
    /\ called.fn = "days_between"
    /\ returned = None
    /\ returned' = Some(days_between(called.args[1], called.args[2]))
    /\ UNCHANGED called
    /\ UNCHANGED <<enrichVars, rankVars, extractVars>>

\* lines 282-286 of main on a new record and a result of fetch_openfda
CallEnrich ==
    /\ called.fn = "enrich"
    /\ returned = None
    /\ returned' = Some(Enriched(NewRow("P2"), called.args[1]))
    /\ UNCHANGED called
    /\ UNCHANGED <<enrichVars, rankVars, extractVars>>

ParseSubmissionCalls == { [fn |-> "parse_submission", args |-> <<raw>>] : raw \in SubmissionRaws }

BuildUrlCalls == { [fn |-> "build_submission_url", args |-> <<id>>] : id \in UrlIds }

ParseRowCalls ==
    { [fn |-> "parse_xml_rows", args |-> <<date, raw>>] :
          date \in FeedDates, raw \in SubmissionRaws }

UpdateIndexCalls ==
    { [fn |-> "update_index_html", args |-> <<pieces, data_json>>] :
          pieces \in SeqsUpTo(DataBlocks \cup OtherPieces, MaxPieces),
          data_json \in DataJsons }

\* update_index_html(index_path, data) on a document made of pieces
CallUpdateIndex ==
    /\ called.fn = "update_index_html"
    /\ returned = None
    /\ returned' = Some(update_index_html(Join(called.args[1]), called.args[2]))
    /\ UNCHANGED called
    /\ UNCHANGED <<enrichVars, rankVars, extractVars>>

ScoreLinkCalls ==
    { [fn |-> "score_link", args |-> <<text, href>>] :
          text \in LinkTexts, href \in LinkUrls }

\* score_link(text, href)
CallScoreLink ==
    /\ called.fn = "score_link"
    /\ returned = None
    /\ returned' = Some(score_link(called.args[1], called.args[2]))
    /\ UNCHANGED called
    /\ UNCHANGED <<enrichVars, rankVars, extractVars>>

\* parse_submission(raw_value)
CallParseSubmission ==
    /\ called.fn = "parse_submission"
    /\ returned = None
    /\ returned' = Some(parse_submission(called.args[1]))
    /\ UNCHANGED called
    /\ UNCHANGED <<enrichVars, rankVars, extractVars>>

\* build_submission_url(submission_id)
CallBuildUrl ==
    /\ called.fn = "build_submission_url"
    /\ returned = None
    /\ returned' = Some(build_submission_url(called.args[1]))
    /\ UNCHANGED called
    /\ UNCHANGED <<enrichVars, rankVars, extractVars>>

\* parse_xml_rows on a feed of one row
CallParseRow ==
    /\ called.fn = "parse_xml_rows"
    /\ returned = None
    /\ returned' = Some(parse_xml_row(called.args[1], called.args[2]))
    /\ UNCHANGED called
    /\ UNCHANGED <<enrichVars, rankVars, extractVars>>

\* called is one of the calls above
Calls ==
    \/ called \in DaysBetweenCalls
    \/ called \in EnrichCalls
    \/ called \in ParseSubmissionCalls
    \/ called \in BuildUrlCalls
    \/ called \in ParseRowCalls
    \/ called \in UpdateIndexCalls
    \/ called \in ScoreLinkCalls

InitCalls ==
    /\ IdleEnrich
    /\ IdleRank
    /\ IdleExtract
    /\ Calls
    /\ returned = None

NextCalls ==
    \/ CallDaysBetween
    \/ CallEnrich
    \/ CallParseSubmission
    \/ CallBuildUrl
    \/ CallParseRow
    \/ CallUpdateIndex
    \/ CallScoreLink

SpecCalls == InitCalls /\ [][NextCalls]_vars

-----------------------------------------------------------------------------
(* Claims about the enrichment client and the dataset builder *)

\* the cache key of the identifier the last finished call was made with
LastKey == Upper(lastCall.arg)

\* C1: a call of fetch_openfda for an identifier, in any letter case, whose
\* upper-cased form has an entry in the cache makes no network call, returns
\* exactly that entry and leaves the cache as it was.
C1_WarmCacheHit ==
    (lastCall.outcome # "none" /\ LastKey \in DOMAIN lastCall.before)
        => /\ lastCall.outcome = "return"
           /\ lastCall.net = 0
           /\ lastCall.ret = lastCall.before[LastKey]
           /\ cache = lastCall.before

\* a lower-case identifier was answered from the entry its upper-case form wrote
C1_Witness ==
    /\ lastCall.arg = "k1"
    /\ lastCall.hit
    /\ lastCall.net = 0
    /\ "K1" \in DOMAIN lastCall.before
    /\ lastCall.ret = lastCall.before["K1"]

\* C2 as claimed: a call whose `retries` attempts all failed with a network or
\* decode failure returned the empty result and left the cache as it was.
C2_AsClaimed ==
    (lastCall.outcome # "none" /\ lastCall.fails = retries)
        => /\ lastCall.outcome = "return"
           /\ lastCall.ret = EmptyResult
           /\ cache = lastCall.before

\* C3: once the service has answered an identifier with zero matches, the cache
\* holds an entry with empty dates for it, no later call for it reaches the
\* retry loop, and every later call for it makes no network call.
C3_MissIsTerminal ==
    /\ \A k \in missed :
          /\ k \in DOMAIN cache
          /\ GetOr(cache[k], "received_date", "?") = ""
          /\ GetOr(cache[k], "decision_date_openfda", "?") = ""
          /\ ~(pc = "attempt" /\ frame.submission_id = k)
    /\ (lastCall.outcome # "none" /\ LastKey \in missed /\ ~lastCall.zero)
          => lastCall.net = 0

\* a later call for an identifier the service had answered with zero matches
C3_Witness ==
    /\ LastKey \in missed
    /\ ~lastCall.zero
    /\ lastCall.hit
    /\ lastCall.ret = ZeroEntry(lastCall.ret.source)

C5_WriteOnce ==
    [][\A k \in DOMAIN cache : k \in DOMAIN cache' /\ cache'[k] = cache[k]]_vars

\* entries of two identifiers were written and a later call was served from one
C5_Witness ==
    /\ Cardinality(DOMAIN cache) = 2
    /\ lastCall.hit
    /\ cache = lastCall.before

\* the values main may leave in the three enrichment fields of a record
ValidRow(record) ==
    /\ record.received_date = "" \/ MatchesShape(record.received_date, "dddd-dd-dd")
    /\ record.decision_date_openfda = ""
          \/ MatchesShape(record.decision_date_openfda, "dddd-dd-dd")
    /\ record.days_to_decision = None
          \/ (Len(record.days_to_decision) = 1 /\ record.days_to_decision[1] >= 0)

\* C6 as claimed: no lookup failure leaves fetch_openfda, so the loop of main
\* never stops before the last record, and a finished run has set the three
\* enrichment fields of every record to valid values.
C6_AsClaimed ==
    /\ pc # "aborted"
    /\ pc = "done" => \A k \in 1..Len(rows) : ValidRow(rows[k])

-----------------------------------------------------------------------------
(* Claims about the ranking of the candidates *)

\* the candidates of the page in discovery order, with their scores
Discovered == Scored(PdfLinks(html_links, base_url))

ScoresDescend(items) ==
    \A j, k \in 1..Len(items) : j < k => items[j].score >= items[k].score

\* result holds the items of base, each once, those of equal score in the
\* order they have in base
StableRearrangement(result, base) ==
    /\ Len(result) = Len(base)
    /\ \E p \in [1..Len(base) -> 1..Len(base)] :
          /\ \A j, k \in 1..Len(base) : j # k => p[j] # p[k]
          /\ \A k \in 1..Len(base) : result[k] = base[p[k]]
          /\ \A j, k \in 1..Len(base) :
                (j < k /\ result[j].score = result[k].score) => p[j] < p[k]

\* C8 as claimed: with a positive candidate the result is the positive
\* candidates by descending score; without one it is all the candidates in
\* discovery order.
C8_AsClaimed ==
    candidates # None =>
        IF Preferred(Discovered) # <<>>
        THEN /\ StableRearrangement(candidates[1], Preferred(Discovered))
             /\ ScoresDescend(candidates[1])
        ELSE candidates[1] = Discovered

\* C8 amended: the result is the positive candidates if there is one, all the
\* candidates otherwise, and in both cases sorted by descending score with
\* candidates of equal score in discovery order.
C8_Ranking ==
    candidates # None =>
        LET kept == IF \E k \in 1..Len(Discovered) : Discovered[k].score > 0
                    THEN SelectSeq(Discovered, LAMBDA item : item.score > 0)
                    ELSE Discovered
        IN  /\ StableRearrangement(candidates[1], kept)
            /\ ScoresDescend(candidates[1])

\* no candidate is positive and the result is not in discovery order
C8_Witness ==
    /\ candidates # None
    /\ Preferred(Discovered) = <<>>
    /\ Len(Discovered) >= 2
    /\ candidates[1] # Discovered

-----------------------------------------------------------------------------
(* Claims about the fetch and extract orchestrator *)

\* the identifier of the record at position k
RecId(k) == Strip(records[k].submission_id)

\* the iteration of the loop for the record at position k is over
Finished(k) == rpos > k

\* the documents selected for the record at position k
DocsOf(k) == { j \in 1..MaxLinks : \E n \in j..MaxLinks : <<k, n>> \in xlog.selected }

\* C7 as claimed: a run without force-refresh does not fetch the reference page
\* of a record whose cached list is the empty list a failed fetch had left.
C7_AsClaimed ==
    ~args.force => \A k \in xlog.fetched : RecId(k) \notin loadedFailed

\* without force-refresh, nothing is fetched, downloaded or extracted for a
\* record that was complete when the loop reached it
NothingRedone ==
    ~args.force =>
        \A k \in xlog.complete :
            /\ k \notin xlog.fetched
            /\ \A j \in 1..MaxLinks : <<k, j>> \notin xlog.downloaded \cup xlog.extracted

\* C9 as claimed: without force-refresh nothing is redone for a complete
\* record; with force-refresh its page is fetched again and its document is
\* downloaded and extracted again.
C9_AsClaimed ==
    /\ NothingRedone
    /\ args.force =>
          \A k \in xlog.complete :
              Finished(k) => /\ k \in xlog.fetched
                             /\ <<k, 1>> \in xlog.downloaded
                             /\ <<k, 1>> \in xlog.extracted

\* with force-refresh the page of a complete record is fetched again; every
\* document selected from the new list is downloaded again, and extracted
\* again unless its download failed; nothing else is downloaded or extracted
RedoneOnForce ==
    args.force =>
        \A k \in xlog.complete :
            /\ k \in xlog.fetched
            /\ Finished(k) =>
                  \A j \in DocsOf(k) :
                      /\ <<k, j>> \in xlog.downloaded
                      /\ <<k, j>> \in xlog.extracted \cup xlog.failed
            /\ \A j \in 1..MaxLinks :
                  <<k, j>> \in xlog.downloaded \cup xlog.extracted => j \in DocsOf(k)

\* the loop is at, or in, a record that was complete when it was reached
AtCompleteRecord ==
    \/ xpc = "docs" /\ rpos \in xlog.complete
    \/ /\ xpc = "records"
       /\ rpos <= Len(records)
       /\ RecId(rpos) # ""
       /\ Strip(records[rpos].submission_url) # ""
       /\ Complete(RecId(rpos))

\* C9 amended: without force-refresh a run fetches, downloads and extracts
\* nothing for a complete record and its steps leave the link cache, the cache
\* file, the documents and the texts as they are; with force-refresh the page
\* is fetched again and the documents of the new list are downloaded again,
\* each extracted again if its download succeeds.
C9_Rerun ==
    [][/\ NothingRedone'
       /\ RedoneOnForce'
       /\ (~args.force /\ AtCompleteRecord)
             => UNCHANGED <<link_cache, cacheFile, pdfFiles, textFiles>>]_vars

\* a run without force-refresh went through a complete record and its document
C9_Witness ==
    /\ ~args.force
    /\ \E k \in xlog.complete :
          /\ Finished(k)
          /\ <<k, 1>> \in xlog.visited
          /\ TextPath(RecId(k), 1, args.all) \in DOMAIN textFiles
          /\ PdfPath(RecId(k), 1, args.all) \in DOMAIN pdfFiles

\* C10: a step of the loop over the documents never aborts the run: whatever
\* the download and the extraction do, the document is counted as visited and
\* the loop moves to the next document of the record, or after the last one to
\* the next record; a run that ends without a limit has gone through every
\* record and through every document selected for it.
C10_DocFailureContained ==
    [][/\ xpc = "docs" =>
             /\ xpc' # "aborted"
             /\ dpos' = dpos + 1
             /\ xlog'.visited = xlog.visited \cup {<<rpos, dpos>>}
             /\ IF dpos < Len(to_download)
                THEN xpc' = "docs" /\ rpos' = rpos
                ELSE xpc' = "records" /\ rpos' = rpos + 1
       /\ (xpc' = "done" /\ args'.limit = 0) =>
             /\ rpos' > Len(records')
             /\ \A k \in 1..Len(records'), j \in 1..MaxLinks :
                   (\E n \in j..MaxLinks : <<k, n>> \in xlog'.selected)
                       => <<k, j>> \in xlog'.visited]_vars

\* the first document of a record failed, its second document and a document
\* of a later record were handled after it, and the run ended
C10_Witness ==
    /\ xpc = "done"
    /\ \E k \in 1..Len(records) :
          /\ <<k, 1>> \in xlog.failed
          /\ <<k, 2>> \in xlog.extracted
          /\ \E m \in (k + 1)..Len(records) : <<m, 1>> \in xlog.visited

-----------------------------------------------------------------------------
(* Claims about the functions of update_data.py *)

\* the calendar of the years of the dates above, written out month by month
CalendarDays ==
    LET lengths(y) == << 31, IF y = 2020 THEN 29 ELSE 28, 31, 30, 31, 30,
                         31, 31, 30, 31, 30, 31 >>
    IN  { <<y, m, d>> : y \in 2019..2021, m \in 1..12, d \in 1..31 }
            \ { <<y, m, d>> \in (2019..2021) \X (1..12) \X (1..31) : d > lengths(y)[m] }

\* the year, month and day a text of the shape YYYY-MM-DD names
DateOf(s) == << ToInt(SubSeq(s, 1, 4)), ToInt(SubSeq(s, 6, 7)), ToInt(SubSeq(s, 9, 10)) >>

\* s is a day of the calendar in the form YYYY-MM-DD
IsDate(s) == MatchesShape(s, "dddd-dd-dd") /\ DateOf(s) \in CalendarDays

\* day x comes before day y
Before(x, y) ==
    \/ x[1] < y[1]
    \/ x[1] = y[1] /\ x[2] < y[2]
    \/ x[1] = y[1] /\ x[2] = y[2] /\ x[3] < y[3]

\* the number of days from day x up to, not including, day y
DayCount(x, y) == Cardinality({ z \in CalendarDays : ~Before(z, x) /\ Before(z, y) })

\* C11: days_to_decision of an enriched record is None or a natural number, and
\* it is a number only if received_date and decision_date_openfda are both
\* dates with the decision not before the reception; days_between returns None
\* if an argument is empty or no date or if the first date is after the second,
\* and the number of days from the first to the second otherwise.
C11_DaysToDecision ==
    /\ (called.fn = "enrich" /\ returned # None) =>
          LET record == returned[1]
              days == record.days_to_decision
          IN  /\ record.received_date = called.args[1].received_date
              /\ record.decision_date_openfda = called.args[1].decision_date_openfda
              /\ days = None \/ (Len(days) = 1 /\ days[1] \in Nat)
              /\ days # None =>
                    /\ IsDate(record.received_date)
                    /\ IsDate(record.decision_date_openfda)
                    /\ ~Before(DateOf(record.decision_date_openfda),
                               DateOf(record.received_date))
                    /\ days[1] = DayCount(DateOf(record.received_date),
                                          DateOf(record.decision_date_openfda))
    /\ (called.fn = "days_between" /\ returned # None) =>
          LET a == called.args[1]
              b == called.args[2]
          IN  returned[1] =
                  IF IsDate(a) /\ IsDate(b) /\ ~Before(DateOf(b), DateOf(a))
                  THEN Some(DayCount(DateOf(a), DateOf(b)))
                  ELSE None

\* days_between has counted the 51 days from 2020-01-10 to 2020-03-01
C11_Witness ==
    /\ called.fn = "days_between"
    /\ called.args = <<"2020-01-10", "2020-03-01">>
    /\ returned = Some(Some(51))

\* s is empty or has the shape YYYY-MM-DD
Canonical(s) == s = "" \/ MatchesShape(s, "dddd-dd-dd")

\* C12 as claimed: the date of a record parse_xml_rows builds, and the
\* received_date and decision_date_openfda of a record before and after the
\* enrichment, are each the empty string or of the shape YYYY-MM-DD.
C12_AsClaimed ==
    (called.fn \in {"parse_xml_rows", "enrich"} /\ returned # None) =>
        /\ called.fn = "parse_xml_rows" => Canonical(returned[1].date)
        /\ Canonical(returned[1].received_date)
        /\ Canonical(returned[1].decision_date_openfda)

\* the number of data blocks among the pieces of a document
BlockCount(pieces) == Cardinality({ k \in 1..Len(pieces) : pieces[k] \in DataBlocks })

\* the pieces with every data block replaced by block
WithBlock(pieces, block) ==
    [k \in 1..Len(pieces) |-> IF pieces[k] \in DataBlocks THEN block ELSE pieces[k]]

\* C13: update_index_html raises no error exactly when the document holds one
\* data block; it then leaves the document with that block replaced by the
\* replacement built from the dataset, which is the dataset itself if the
\* dataset has no backslash, and with every other piece as it was; with no
\* block or more than one it raises RuntimeError and writes nothing.
C13_ExactlyOneBlock ==
    (called.fn = "update_index_html" /\ returned # None) =>
        LET pieces == called.args[1]
            data_json == called.args[2]
            block == "const rawData = " \o Expand(data_json) \o ";"
            outcome == returned[1]
        IN  /\ outcome.exc = "" <=> BlockCount(pieces) = 1
            /\ outcome.exc # "" => /\ outcome.exc = "RuntimeError"
                                   /\ outcome.content = Join(pieces)
                                   /\ ~outcome.written
            /\ outcome.exc = "" => /\ outcome.content = Join(WithBlock(pieces, block))
                                   /\ outcome.written <=> outcome.content # Join(pieces)
            /\ ~Contains(data_json, "\\") => Expand(data_json) = data_json

\* a document of two blocks was refused and left as it was
C13_Witness ==
    /\ called.fn = "update_index_html"
    /\ returned # None
    /\ BlockCount(called.args[1]) = 2
    /\ returned[1].exc = "RuntimeError"
    /\ returned[1].content = Join(called.args[1])
    /\ Contains(returned[1].content, "[1];")

\* id is DEN, K or P followed by digits
IsCanonicalId(id) ==
    \/ StartsWith(id, "DEN") /\ IsDigits(SubSeq(id, 4, Len(id)))
    \/ StartsWith(id, "K") /\ IsDigits(SubSeq(id, 2, Len(id)))
    \/ StartsWith(id, "P") /\ IsDigits(SubSeq(id, 2, Len(id)))

\* the page of each family, up to the identifier
TemplateOf(id) ==
    "https://www.accessdata.fda.gov/scripts/cdrh/cfdocs/"
        \o (IF StartsWith(id, "K") THEN "cfPMN/pmn.cfm?ID="
            ELSE IF StartsWith(id, "P") THEN "cfpma/pma.cfm?id="
            ELSE "cfpmn/denovo.cfm?id=")

\* raw holds DEN, K or P, in either letter case, right before a digit
HasIdentifier(raw) ==
    \E k \in 1..Len(raw) :
        \E n \in {1, 3} :
            /\ k + n <= Len(raw)
            /\ IsDigit(Char(raw, k + n))
            /\ Upper(SubSeq(raw, k, k + n - 1)) \in {"DEN", "K", "P"}

\* raw holds neither a URL nor a hyperlink directive
Plain(raw) ==
    /\ ~Contains(raw, "http://")
    /\ ~Contains(raw, "https://")
    /\ ~Contains(Upper(raw), "HYPERLINK(")

\* C14: for a raw field with an identifier of a family and neither URL nor
\* hyperlink directive, parse_submission returns an identifier of the field in
\* upper case and the page of its family with that identifier as the value of
\* the query parameter; for a raw field with neither identifier nor URL nor
\* directive it returns two empty strings; build_submission_url returns the
\* page of the family for an identifier that starts with K, P or DEN in either
\* letter case and the empty string for any other.
C14_UrlSynthesis ==
    /\ (called.fn = "parse_submission" /\ returned # None /\ Plain(called.args[1])) =>
          LET raw == called.args[1]
              submission_id == returned[1][1]
              url == returned[1][2]
          IN  IF HasIdentifier(raw)
              THEN /\ IsCanonicalId(submission_id)
                   /\ Contains(Upper(raw), submission_id)
                   /\ url = TemplateOf(submission_id) \o submission_id
              ELSE submission_id = "" /\ url = ""
    /\ (called.fn = "build_submission_url" /\ returned # None) =>
          LET id == Upper(called.args[1])
          IN  returned[1] =
                  IF StartsWith(id, "K") \/ StartsWith(id, "P") \/ StartsWith(id, "DEN")
                  THEN TemplateOf(id) \o id
                  ELSE ""

\* a De Novo identifier in lower case was resolved and given its page
C14_Witness ==
    /\ called.fn = "parse_submission"
    /\ called.args = <<"den200001">>
    /\ returned = Some(<< "DEN200001",
           "https://www.accessdata.fda.gov/scripts/cdrh/cfdocs/cfpmn/denovo.cfm?id=DEN200001" >>)

\* C19 as claimed: the submission_id parse_submission returns, and the one of
\* the record parse_xml_rows builds, is the empty string or DEN, K or P
\* followed by digits, in upper case.
C19_AsClaimed ==
    /\ (called.fn = "parse_submission" /\ returned # None) =>
          returned[1][1] = "" \/ IsCanonicalId(returned[1][1])
    /\ (called.fn = "parse_xml_rows" /\ returned # None) =>
          returned[1].submission_id = "" \/ IsCanonicalId(returned[1].submission_id)

-----------------------------------------------------------------------------
(* Claims about the attempts and the sleeps of fetch_openfda *)

\* n network attempts with, between one and the next, the sleep of k units of
\* throttle after the k-th
RECURSIVE Rounds(_)
Rounds(n) ==
    IF n = 0 THEN <<>>
    ELSE IF n = 1 THEN << Event("net", 0) >>
    ELSE Rounds(n - 1) \o << Event("backoff", n - 1), Event("net", 0) >>

\* what a call may do after its last network attempt: nothing, or write the
\* cache, or write the cache and sleep throttle once
AfterLastAttempt ==
    { <<>>, << Event("write", 0) >>, << Event("write", 0), Event("delay", 1) >> }

\* C15: a call of fetch_openfda makes at most `retries` network attempts; each
\* attempt but the first comes right after a sleep of throttle times the number
\* of attempts made before it, and nothing else lies between two attempts; no
\* sleep of the backoff follows the last attempt, and after an attempt that got
\* a response no further attempt is made.
C15_BoundedRetry ==
    /\ pc = "attempt" =>
          /\ frame.attempt < retries
          /\ frame.net = frame.attempt
          /\ frame.trace = IF frame.attempt = 0 THEN <<>>
                           ELSE Append(Rounds(frame.attempt),
                                       Event("backoff", frame.attempt))
    /\ lastCall.outcome # "none" =>
          /\ lastCall.net <= retries
          /\ \E after \in AfterLastAttempt :
                lastCall.trace = Rounds(lastCall.net) \o after
          /\ lastCall.net = 0 => lastCall.trace = <<>>

\* a call whose three attempts failed slept throttle, then twice throttle, and
\* returned after the third without a sleep
C15_Witness ==
    /\ lastCall.outcome = "return"
    /\ lastCall.fails = retries
    /\ lastCall.trace = << Event("net", 0), Event("backoff", 1), Event("net", 0),
                           Event("backoff", 2), Event("net", 0) >>

\* the number of sleeps of the post-call delay in a trace
Delays(trace) == Cardinality({ k \in 1..Len(trace) : trace[k].ev = "delay" })

\* the last finished call got a match from the service
Matched ==
    /\ lastCall.outcome = "return"
    /\ lastCall.net > 0
    /\ ~lastCall.zero
    /\ "source" \in DOMAIN lastCall.ret

\* C18: a call of fetch_openfda that got a match sleeps the post-call delay
\* once, throttle long, as the last thing it does and right after the write of
\* the cache; a call answered from the cache, a call for an empty identifier or
\* one of another family does nothing at all, and a call that got no match ends
\* with the write of the cache; none of them sleeps the post-call delay.
C18_PostCallDelay ==
    lastCall.outcome # "none" =>
        LET trace == lastCall.trace
            n == Len(trace)
        IN  /\ Matched =>
                  /\ Delays(trace) = 1
                  /\ n >= 3
                  /\ trace[n] = Event("delay", 1)
                  /\ trace[n - 1] = Event("write", 0)
                  /\ cache[LastKey] = lastCall.ret
            /\ ~Matched => Delays(trace) = 0
            /\ lastCall.zero =>
                  /\ trace[n] = Event("write", 0)
                  /\ cache[LastKey] = ZeroEntry(lastCall.ret.source)
            /\ (lastCall.hit \/ lastCall.arg = "" \/ Endpoint(LastKey) = None) =>
                  trace = <<>>

\* a call that got a match after one failed attempt slept the backoff and then
\* the post-call delay
C18_Witness ==
    /\ Matched
    /\ lastCall.fails = 1
    /\ lastCall.trace = << Event("net", 0), Event("backoff", 1), Event("net", 0),
                           Event("write", 0), Event("delay", 1) >>

-----------------------------------------------------------------------------
(* Claims about the relevance score *)

\* the keywords of a list found in a text, in any letter case
FoundIn(keywords, text) ==
    { k \in 1..Len(keywords) : Contains(Lower(text), keywords[k]) }

\* C16 as claimed: the score is 3 for every positive keyword found in the
\* anchor text, plus 1 for every positive keyword found in the URL, minus 2 for
\* every negative keyword found in the anchor text or the URL.
C16_AsClaimed ==
    (called.fn = "score_link" /\ returned # None) =>
        LET text == called.args[1]
            href == called.args[2]
        IN  returned[1] =
                3 * Cardinality(FoundIn(SUMMARY_KEYWORDS, text))
                + Cardinality(FoundIn(SUMMARY_KEYWORDS, href))
                - 2 * Cardinality(FoundIn(NEGATIVE_KEYWORDS, text)
                                    \cup FoundIn(NEGATIVE_KEYWORDS, href))

\* C16 amended: the score is 3 for every positive keyword found in the anchor
\* text, plus 1 for every positive keyword found in the URL and not in the
\* anchor text, minus 2 for every negative keyword found in the anchor text or
\* the URL.
C16_Score ==
    (called.fn = "score_link" /\ returned # None) =>
        LET text == called.args[1]
            href == called.args[2]
        IN  returned[1] =
                3 * Cardinality(FoundIn(SUMMARY_KEYWORDS, text))
                + Cardinality(FoundIn(SUMMARY_KEYWORDS, href)
                                \ FoundIn(SUMMARY_KEYWORDS, text))
                - 2 * Cardinality(FoundIn(NEGATIVE_KEYWORDS, text)
                                    \cup FoundIn(NEGATIVE_KEYWORDS, href))

\* "summary" is in the anchor text and in the URL and counts 3
C16_Witness ==
    /\ called.fn = "score_link"
    /\ called.args = <<"Summary", "https://h/summary.pdf">>
    /\ returned = Some(3)

-----------------------------------------------------------------------------
(* Claims about the link cache of the orchestrator *)

\* C17: while a run of the orchestrator lasts, the cache file holds what the
\* link cache in memory holds, and every record whose page fetch is over, with
\* a page or with a network failure, has a list of URLs in the cache file under
\* its identifier; a step that fetches a page leaves the list it found, or the
\* empty list, in the file and every other entry of the file as it was.
C17_SavedIncrementally ==
    [][/\ xpc' # "idle" =>
             /\ cacheFile' = link_cache'
             /\ \A k \in xlog'.fetched :
                   (k < rpos' \/ xpc' = "docs") =>
                       /\ RecId(k)' \in DOMAIN cacheFile'
                       /\ "summary_links" \in DOMAIN cacheFile'[RecId(k)']
       /\ (xpc = "records" /\ xlog'.fetched # xlog.fetched /\ xpc' # "aborted") =>
             /\ cacheFile'[RecId(rpos)].summary_links
                   \in { RankedUrls[Strip(records[rpos].submission_url), p] : p \in Pages }
                          \cup { <<>> }
             /\ xpc' = "docs" =>
                   to_download' = Selected(cacheFile'[RecId(rpos)].summary_links, args.all)
             /\ \A id \in DOMAIN cacheFile \ {RecId(rpos)} :
                   id \in DOMAIN cacheFile' /\ cacheFile'[id] = cacheFile[id]]_vars

\* the list found for a record is in the cache file while the run is at the
\* documents of the record
C17_Witness ==
    /\ xpc = "docs"
    /\ rpos \in xlog.fetched
    /\ RecId(rpos) \notin DOMAIN loaded
    /\ cacheFile = link_cache
    /\ Len(cacheFile[RecId(rpos)].summary_links) = 2
    /\ to_download = cacheFile[RecId(rpos)].summary_links

\* the step is the fetch of the page of the record at rpos
PageFetch == xpc = "records" /\ xlog'.fetched # xlog.fetched

\* C20: a step of a run with force-refresh in which the fetch of the page fails
\* with a network failure, for a record whose cached list was not empty, leaves
\* the empty list in the link cache and in the cache file, moves to the next
\* record and downloads and extracts nothing; no step of a run without
\* force-refresh changes an entry of the link cache or of the cache file whose
\* list is not empty.
C20_ForcedFailureLosesLinks ==
    [][/\ (/\ args.force
           /\ PageFetch
           /\ CachedLinks(link_cache, RecId(rpos)) # <<>>
           /\ RecId(rpos) \in failedIds') =>
             /\ link_cache'[RecId(rpos)] = [summary_links |-> <<>>]
             /\ cacheFile' = link_cache'
             /\ xpc' = "records"
             /\ rpos' = rpos + 1
             /\ xlog'.selected = xlog.selected
             /\ xlog'.downloaded = xlog.downloaded
             /\ xlog'.extracted = xlog.extracted
             /\ UNCHANGED <<pdfFiles, textFiles, processed>>
       /\ ~args.force =>
             /\ \A id \in DOMAIN cacheFile :
                   cacheFile[id].summary_links # <<>> =>
                       id \in DOMAIN cacheFile' /\ cacheFile'[id] = cacheFile[id]
             /\ xpc' # "idle" =>
                   \A id \in DOMAIN link_cache :
                       link_cache[id].summary_links # <<>> =>
                           id \in DOMAIN link_cache' /\ link_cache'[id] = link_cache[id]
      ]_vars

\* a run with force-refresh has lost the links of a record it had loaded
C20_Witness ==
    /\ args.force
    /\ xpc = "records"
    /\ \E k \in xlog.fetched :
          /\ k < rpos
          /\ RecId(k) \in DOMAIN loaded
          /\ loaded[RecId(k)].summary_links # <<>>
          /\ RecId(k) \in failedIds
          /\ cacheFile[RecId(k)] = [summary_links |-> <<>>]
          /\ \A j \in 1..MaxLinks : <<k, j>> \notin xlog.downloaded

=============================================================================
